---- MODULE Spec2Model ----
(***************************************************************************)
(* Model of run.py, the CCW interview watcher: watch_for_slots and the     *)
(* functions it calls (get_config, get_session_token, get_current_booking, *)
(* get_timeslots, reschedule, send_text_message).                          *)
(*                                                                         *)
(* The watcher is one sequential thread.  Every blocking call it makes     *)
(* (an HTTP request, a text message, the sleep) is one action; the answer  *)
(* of the remote service is the action's input.  Times are epoch           *)
(* milliseconds, scaled down so that they fit TLC's integers; the          *)
(* threshold keeps its value of 108000 seconds.                            *)
(***************************************************************************)
EXTENDS Integers, Sequences, FiniteSets, TLC

VARIABLES
    pc,                    \* position of watch_for_slots
    configFile,            \* ./config.yml: "absent", "invalid" or "valid"
    reschedule_threshold_seconds,  \* the threshold config.yml states
    templateWritten,       \* config-blank.yml was copied to ./config.yml
    session_token,         \* local of watch_for_slots
    current_booking_ms,    \* local of watch_for_slots
    current_time_ms,       \* local of watch_for_slots
    time_until_apt_s,      \* local of watch_for_slots
    best_timeslot_ms,      \* local of watch_for_slots: None or a number
    delta_best_current_s,  \* local of watch_for_slots
    remoteBooking,         \* the booking the remote service holds (ms)
    lastToken,             \* the session the remote service issued last
    clock,                 \* the wall clock (ms), never going back
    extChanges,            \* bookings changed outside the watcher so far
    all_slots,             \* what the last slot query answered
    iterLog,               \* requests issued in the current cycle
    startedCount,          \* 'watcher started' messages delivered
    exitStatus,            \* process exit status, -1 while running
    exitCause,             \* why the process ended
    exitAt                 \* pc at which the process ended

vars == <<pc, configFile, reschedule_threshold_seconds,
          templateWritten, session_token, current_booking_ms,
          current_time_ms, time_until_apt_s, best_timeslot_ms,
          delta_best_current_s, remoteBooking, lastToken, clock, extChanges,
          all_slots, iterLog, startedCount, exitStatus, exitCause, exitAt>>

-----------------------------------------------------------------------------
(* Bounds of the model *)

\* longest candidate list the slot query answers with
MaxSlots == 2

\* how many times the booking is changed outside the watcher
MaxExternal == 1

-----------------------------------------------------------------------------
(* Values *)

\* Python's None and a present value
None == <<>>
Some(v) == <<v>>

\* the threshold read from the loaded configuration instead of the literal
Threshold_FromConfig == reschedule_threshold_seconds

\* the literal of `if delta_best_current_s > 108000`
Threshold == 108000

\* times at which time.time() is sampled
NowVals == {1000, 2000}

\* bookings the remote service starts with, or is moved to externally
BookingVals == {216002000, 108001000}

\* slot times the remote service may offer
SlotVals == {0, 1000, 108000000, 108001500, 216003000}

Tokens == {"t1", "t2"}

\* thresholds (seconds) a config.yml may state
ConfigThresholds == {100000, 108000}

RECURSIVE SeqsUpTo(_, _)
SeqsUpTo(S, n) ==
    IF n = 0 THEN {<<>>}
    ELSE LET shorter == SeqsUpTo(S, n - 1)
         IN  shorter \cup {Append(s, x) : s \in shorter, x \in S}

SlotLists == SeqsUpTo(SlotVals, MaxSlots)

-----------------------------------------------------------------------------
(* Responses of the outside world *)

\* POST /order_tracker.  The Set-Cookie header is its ';'-separated segments,
\* each segment its '='-separated parts.
AuthResponses(tok) ==
    { [err |-> TRUE,  hasCookie |-> FALSE, cookie |-> <<>>],
      [err |-> FALSE, hasCookie |-> FALSE, cookie |-> <<>>],
      [err |-> FALSE, hasCookie |-> TRUE,
       cookie |-> << <<"PLAY_SESSION", tok>>, <<"Path", "/">> >>],
      [err |-> FALSE, hasCookie |-> TRUE,  cookie |-> << <<"deleted">> >>] }

\* GET /order_tracker.  A well-formed page shows the booking to the second.
BookingResponses(booking) ==
    { [err |-> TRUE,  wellformed |-> FALSE, secs |-> 0],
      [err |-> FALSE, wellformed |-> FALSE, secs |-> 0],
      [err |-> FALSE, wellformed |-> TRUE,  secs |-> booking \div 1000] }

\* GET /ccw/appointments
SlotResponses ==
    { [err |-> TRUE,  status |-> 0,   wellformed |-> FALSE, list |-> <<>>],
      [err |-> FALSE, status |-> 500, wellformed |-> FALSE, list |-> <<>>],
      [err |-> FALSE, status |-> 200, wellformed |-> FALSE, list |-> <<>>] }
    \cup { [err |-> FALSE, status |-> 200, wellformed |-> TRUE, list |-> l] :
             l \in SlotLists }

\* POST /order_tracker_reschedule
RescheduleResponses ==
    { [err |-> TRUE,  status |-> 0],
      [err |-> FALSE, status |-> 200],
      [err |-> FALSE, status |-> 500] }

NoSlotResponse ==
    [err |-> FALSE, status |-> 0, wellformed |-> FALSE, list |-> <<>>]

-----------------------------------------------------------------------------
(* The log of requests *)

Entry(op, kind, tok, a, b, st) ==
    [op |-> op, kind |-> kind, tok |-> tok, a |-> a, b |-> b, st |-> st]

Entries(log, op) == { i \in 1..Len(log) : log[i].op = op }

-----------------------------------------------------------------------------
(* Pure parts of run.py *)

\* int(x / 1000): Python's int() truncates towards zero
IntDiv1000(x) == IF x >= 0 THEN x \div 1000 ELSE -((-x) \div 1000)

\* the truth value of `if best_timeslot_ms:`: None and 0 are both false
Truthy(opt) == opt # None /\ opt[1] # 0

\* Python's min over a non-empty list of numbers
RECURSIVE PyMin(_)
PyMin(l) ==
    IF Len(l) = 1 THEN l[1]
    ELSE LET m == PyMin(Tail(l)) IN IF l[1] <= m THEN l[1] ELSE m

\* sys.exit whose message is lost: status 0 whatever the argument
SysExitStatus_AlwaysZero(arg) == 0

\* sys.exit(arg): status 0 for None, 1 for a message (printed to stderr)
SysExitStatus(arg) == IF arg = None THEN 0 ELSE 1

\* an exception nothing catches: traceback, status 1
UncaughtStatus == 1

\* QueryEnd without the one-second margin
QueryEnd_NoMargin(end_time_epochms) == end_time_epochms

\* the `end=` parameter of the slot query URL
QueryEnd(end_time_epochms) == end_time_epochms - 1000

\* the `start=` parameter of the slot query URL
QueryStart(start_time_epochms) == start_time_epochms

\* get_session_token, given the response to its POST
get_session_token(resp) ==
    IF resp.err THEN [out |-> "raise", val |-> None]
    ELSE IF resp.hasCookie
         THEN LET segment == resp.cookie[1]
              IN  IF Len(segment) >= 2
                  THEN [out |-> "return", val |-> Some(segment[2])]
                  ELSE [out |-> "raise", val |-> None]
         ELSE [out |-> "exit", val |-> None]

\* get_current_booking, given the response to its GET
get_current_booking(resp) ==
    IF resp.err \/ ~resp.wellformed
    THEN [out |-> "raise", val |-> None]
    ELSE [out |-> "return", val |-> Some(resp.secs * 1000)]

\* what get_timeslots does: raise, or return a value, having logged
\* 'something went wrong' or not
Raised == [out |-> "raise", val |-> None, reported |-> FALSE]
Returned(v) == [out |-> "return", val |-> v, reported |-> FALSE]
ReturnedAfterReport(v) == [out |-> "return", val |-> v, reported |-> TRUE]

\* get_timeslots without the status test: the body of an error page is
\* decoded and evaluated like a slot list
get_timeslots_NoStatusTest(resp) ==
    IF resp.err THEN Raised
    ELSE IF ~resp.wellformed THEN Raised
    ELSE IF Len(resp.list) > 0 THEN Returned(Some(PyMin(resp.list)))
    ELSE Returned(None)

\* get_timeslots without the `if all_slots:` test: min([]) raises ValueError
get_timeslots_NoEmptyTest(resp) ==
    IF resp.err THEN Raised
    ELSE IF resp.status # 200 THEN ReturnedAfterReport(None)
    ELSE IF ~resp.wellformed THEN Raised
    ELSE IF Len(resp.list) > 0 THEN Returned(Some(PyMin(resp.list)))
    ELSE Raised

\* get_timeslots returning the first slot of the list instead of the earliest
get_timeslots_FirstSlot(resp) ==
    IF resp.err THEN Raised
    ELSE IF resp.status # 200 THEN ReturnedAfterReport(None)
    ELSE IF ~resp.wellformed THEN Raised
    ELSE IF Len(resp.list) > 0 THEN Returned(Some(resp.list[1]))
    ELSE Returned(None)

\* get_timeslots, given the response to its GET
get_timeslots(resp) ==
    IF resp.err THEN Raised
    ELSE IF resp.status # 200 THEN ReturnedAfterReport(None)
    ELSE IF ~resp.wellformed THEN Raised
    ELSE IF Len(resp.list) > 0 THEN Returned(Some(PyMin(resp.list)))
    ELSE Returned(None)

\* the start-up message pasted into the loop's notification
RebookedMessage_Pasted == "started"

\* the message of the notification sent after reschedule()
RebookedMessage == "rebooked"

\* the message of the notification sent before the loop
StartedMessage == "started"

-----------------------------------------------------------------------------
(* State after the interpreter has loaded run.py, before watch_for_slots *)

Init ==
    /\ pc = "get_config"
    /\ configFile \in {"absent", "invalid", "valid"}
    /\ reschedule_threshold_seconds \in ConfigThresholds
    /\ templateWritten = FALSE
    /\ session_token = None
    /\ current_booking_ms = 0
    /\ current_time_ms = 0
    /\ time_until_apt_s = 0
    /\ best_timeslot_ms = None
    /\ delta_best_current_s = 0
    /\ remoteBooking \in BookingVals
    /\ lastToken \in Tokens
    /\ clock = 0
    /\ extChanges = 0
    /\ all_slots = NoSlotResponse
    /\ iterLog = <<>>
    /\ startedCount = 0
    /\ exitStatus = -1
    /\ exitCause = "none"
    /\ exitAt = "none"

\* the process ends: sys.exit or an exception that nothing catches
Terminate(cause, status) ==
    /\ pc' = "terminated"
    /\ exitStatus' = status
    /\ exitCause' = cause
    /\ exitAt' = pc

Running == UNCHANGED <<exitStatus, exitCause, exitAt>>

-----------------------------------------------------------------------------
(* watch_for_slots, one action per blocking call *)

\* config = get_config(); twilio_client = Client(...)
GetConfig ==
    /\ pc = "get_config"
    /\ IF configFile = "absent"
       THEN /\ templateWritten' = TRUE
            /\ Terminate("config_missing",
                         SysExitStatus(Some("Configuration not found")))
       ELSE IF configFile = "invalid"
       THEN \* yaml.YAMLError is logged, get_config returns None and
            \* config['twilio'] raises TypeError
            /\ templateWritten' = templateWritten
            /\ Terminate("config_invalid", UncaughtStatus)
       ELSE /\ templateWritten' = templateWritten
            /\ pc' = "start_auth"
            /\ Running
    /\ UNCHANGED <<configFile, reschedule_threshold_seconds,
                   session_token, current_booking_ms,
                   current_time_ms, time_until_apt_s, best_timeslot_ms,
                   delta_best_current_s, remoteBooking, lastToken, clock,
                   extChanges, all_slots, iterLog, startedCount>>

\* session_token = get_session_token(...), shared by start-up and loop;
\* `log` is the log the request is appended to
Authenticate(log, nextpc) ==
    \E tok \in Tokens \ {lastToken} :
    \E resp \in AuthResponses(tok) :
        LET r == get_session_token(resp)
            entry == Entry("auth", "",
                           IF r.out = "return" THEN r.val[1] ELSE "", 0, 0,
                           IF r.out = "return" THEN 1 ELSE 0)
        IN  /\ iterLog' = Append(log, entry)
            /\ all_slots' = NoSlotResponse
            /\ lastToken' = IF resp.hasCookie /\ Len(resp.cookie[1]) >= 2
                            THEN tok ELSE lastToken
            /\ IF r.out = "return"
               THEN /\ session_token' = r.val
                    /\ pc' = nextpc
                    /\ Running
               ELSE IF r.out = "exit"
               THEN /\ session_token' = session_token
                    /\ Terminate("auth_no_cookie", SysExitStatus(None))
               ELSE /\ session_token' = session_token
                    /\ Terminate(IF resp.err THEN "auth_transport"
                                 ELSE "auth_cookie_format", UncaughtStatus)
            /\ UNCHANGED <<configFile, reschedule_threshold_seconds,
                           templateWritten, current_booking_ms,
                           current_time_ms, time_until_apt_s,
                           best_timeslot_ms, delta_best_current_s,
                           remoteBooking, clock, extChanges, startedCount>>

\* current_booking_ms = get_current_booking(session_token) and the three
\* assignments after it, shared by start-up and loop
FetchBooking(nextpc) ==
    \E resp \in BookingResponses(remoteBooking) :
    \E now \in {t \in NowVals : t >= clock} :
        LET r == get_current_booking(resp)
        IN  /\ iterLog' = Append(iterLog,
                   Entry("booking", "", session_token[1], resp.secs, 0,
                         IF r.out = "return" THEN 1 ELSE 0))
            /\ IF r.out = "return"
               THEN /\ current_booking_ms' = r.val[1]
                    /\ current_time_ms' = now
                    /\ clock' = now
                    /\ time_until_apt_s' = IntDiv1000(r.val[1] - now)
                    /\ pc' = nextpc
                    /\ Running
               ELSE /\ UNCHANGED <<current_booking_ms, current_time_ms,
                                   clock, time_until_apt_s>>
                    /\ Terminate(IF resp.err THEN "booking_transport"
                                 ELSE "booking_parse", UncaughtStatus)
            /\ UNCHANGED <<configFile, reschedule_threshold_seconds,
                           templateWritten, session_token,
                           best_timeslot_ms, delta_best_current_s,
                           remoteBooking, lastToken, extChanges, all_slots,
                           startedCount>>

\* send_text_message(twilio_client, sender, receiver, message)
SendText(message, nextpc) ==
    \E delivered \in BOOLEAN :
        /\ iterLog' = Append(iterLog,
               Entry("notify", message, "", 0, 0,
                     IF delivered THEN 1 ELSE 0))
        /\ IF delivered
           THEN /\ startedCount' = IF message = StartedMessage
                                   THEN startedCount + 1 ELSE startedCount
                /\ pc' = nextpc
                /\ Running
           ELSE /\ startedCount' = startedCount
                /\ Terminate("notify_failed", UncaughtStatus)
        /\ UNCHANGED <<configFile, reschedule_threshold_seconds,
                       templateWritten, session_token,
                       current_booking_ms, current_time_ms,
                       time_until_apt_s, best_timeslot_ms,
                       delta_best_current_s, remoteBooking, lastToken,
                       clock, extChanges, all_slots>>

StartAuth == pc = "start_auth" /\ Authenticate(iterLog, "start_booking")

StartBooking == pc = "start_booking" /\ FetchBooking("start_notify")

StartNotify == pc = "start_notify" /\ SendText(StartedMessage, "loop_auth")

\* LoopAuth that authenticates but goes on with the token it already held
LoopAuth_KeepsToken ==
    /\ pc = "loop_auth"
    /\ \E tok \in Tokens \ {lastToken} :
       \E resp \in AuthResponses(tok) :
        LET r == get_session_token(resp)
        IN  /\ iterLog' = <<Entry("auth", "",
                               IF r.out = "return" THEN r.val[1] ELSE "",
                               0, 0, IF r.out = "return" THEN 1 ELSE 0)>>
            /\ all_slots' = NoSlotResponse
            /\ lastToken' = IF r.out = "return" THEN tok ELSE lastToken
            /\ IF r.out = "return"
               THEN pc' = "loop_booking" /\ Running
               ELSE Terminate("auth_failed", UncaughtStatus)
            /\ UNCHANGED <<configFile, reschedule_threshold_seconds,
                           templateWritten, session_token,
                           current_booking_ms, current_time_ms,
                           time_until_apt_s, best_timeslot_ms,
                           delta_best_current_s, remoteBooking, clock,
                           extChanges, startedCount>>

\* top of `while True`: a new cycle begins
LoopAuth == pc = "loop_auth" /\ Authenticate(<<>>, "loop_booking")

\* LoopBooking that fetches the page but trusts the booking time it holds
LoopBooking_Cached ==
    /\ pc = "loop_booking"
    /\ \E resp \in BookingResponses(remoteBooking) :
       \E now \in {t \in NowVals : t >= clock} :
        LET r == get_current_booking(resp)
        IN  /\ iterLog' = Append(iterLog,
                   Entry("booking", "", session_token[1], resp.secs, 0,
                         IF r.out = "return" THEN 1 ELSE 0))
            /\ IF r.out = "return"
               THEN /\ current_time_ms' = now
                    /\ clock' = now
                    /\ time_until_apt_s' =
                           IntDiv1000(current_booking_ms - now)
                    /\ pc' = "loop_timeslots"
                    /\ Running
               ELSE /\ UNCHANGED <<current_time_ms, clock, time_until_apt_s>>
                    /\ Terminate(IF resp.err THEN "booking_transport"
                                 ELSE "booking_parse", UncaughtStatus)
            /\ UNCHANGED <<configFile, reschedule_threshold_seconds,
                           templateWritten, session_token,
                           current_booking_ms, best_timeslot_ms,
                           delta_best_current_s, remoteBooking, lastToken,
                           extChanges, all_slots, startedCount>>

LoopBooking == pc = "loop_booking" /\ FetchBooking("loop_timeslots")

\* the delta with its operands the other way round
DeltaSeconds_Reversed(booking_ms, best_ms) == IntDiv1000(best_ms - booking_ms)

\* delta_best_current_s = int((current_booking_ms - best_timeslot_ms)/1000)
DeltaSeconds(booking_ms, best_ms) == IntDiv1000(booking_ms - best_ms)

\* `if best_timeslot_ms:` and, inside it, `if delta_best_current_s > 108000:`
ShouldReschedule(booking_ms, best) ==
    /\ Truthy(best)
    /\ DeltaSeconds(booking_ms, best[1]) > Threshold

\* best_timeslot_ms = get_timeslots(current_time_ms, current_booking_ms)
\* and the two tests on its result
LoopTimeslots ==
    /\ pc = "loop_timeslots"
    /\ \E resp \in SlotResponses :
        LET r == get_timeslots(resp)
        IN  /\ iterLog' = Append(iterLog,
                   Entry("slots", IF r.reported THEN "reported" ELSE "", "",
                         QueryStart(current_time_ms),
                         QueryEnd(current_booking_ms), resp.status))
            /\ all_slots' = resp
            /\ IF r.out = "return"
               THEN /\ best_timeslot_ms' = r.val
                    /\ delta_best_current_s' =
                           IF Truthy(r.val)
                           THEN DeltaSeconds(current_booking_ms, r.val[1])
                           ELSE delta_best_current_s
                    /\ pc' = IF ShouldReschedule(current_booking_ms, r.val)
                             THEN "loop_reschedule" ELSE "loop_sleep"
                    /\ Running
               ELSE /\ UNCHANGED <<best_timeslot_ms, delta_best_current_s>>
                    /\ Terminate(IF resp.err THEN "slots_transport"
                                 ELSE "slots_parse", UncaughtStatus)
    /\ UNCHANGED <<configFile, reschedule_threshold_seconds,
                   templateWritten, session_token,
                   current_booking_ms, current_time_ms, time_until_apt_s,
                   remoteBooking, lastToken, clock, extChanges,
                   startedCount>>

\* reschedule(session_token, best_timeslot_ms): the response is not looked at.
\* The remote service moves the booking when it answers 200.
LoopReschedule ==
    /\ pc = "loop_reschedule"
    /\ \E resp \in RescheduleResponses :
        /\ iterLog' = Append(iterLog,
               Entry("reschedule", "", session_token[1],
                     best_timeslot_ms[1], 0, resp.status))
        /\ remoteBooking' = IF ~resp.err /\ resp.status = 200
                            THEN best_timeslot_ms[1] ELSE remoteBooking
        /\ IF resp.err
           THEN Terminate("reschedule_transport", UncaughtStatus)
           ELSE pc' = "loop_notify" /\ Running
    /\ UNCHANGED <<configFile, reschedule_threshold_seconds,
                   templateWritten, session_token,
                   current_booking_ms, current_time_ms, time_until_apt_s,
                   best_timeslot_ms, delta_best_current_s, lastToken, clock,
                   extChanges, all_slots, startedCount>>

\* LoopNotify that goes back to the reschedule request after the message
LoopNotify_Again ==
    pc = "loop_notify" /\ SendText(RebookedMessage, "loop_reschedule")

LoopNotify == pc = "loop_notify" /\ SendText(RebookedMessage, "loop_sleep")

\* LoopSleep in a loop that runs once: watch_for_slots returns after it
LoopSleep_Returns ==
    /\ pc = "loop_sleep"
    /\ Terminate("returned", 0)
    /\ UNCHANGED <<configFile, reschedule_threshold_seconds,
                   templateWritten, session_token, current_booking_ms,
                   current_time_ms, time_until_apt_s, best_timeslot_ms,
                   delta_best_current_s, remoteBooking, lastToken, clock,
                   extChanges, all_slots, iterLog, startedCount>>

\* time.sleep(config['general']['rate_of_check_seconds']): the cycle is over
LoopSleep ==
    /\ pc = "loop_sleep"
    /\ pc' = "loop_auth"
    /\ iterLog' = <<>>
    /\ all_slots' = NoSlotResponse
    /\ UNCHANGED <<configFile, reschedule_threshold_seconds,
                   templateWritten, session_token,
                   current_booking_ms, current_time_ms, time_until_apt_s,
                   best_timeslot_ms, delta_best_current_s, remoteBooking,
                   lastToken, clock, extChanges, startedCount, exitStatus,
                   exitCause, exitAt>>

\* the operator moves the booking by hand on the remote service
ExternalChange ==
    /\ pc # "terminated"
    /\ extChanges < MaxExternal
    /\ extChanges' = extChanges + 1
    /\ remoteBooking' \in BookingVals \ {remoteBooking}
    /\ UNCHANGED <<pc, configFile, reschedule_threshold_seconds,
                   templateWritten, session_token,
                   current_booking_ms, current_time_ms, time_until_apt_s,
                   best_timeslot_ms, delta_best_current_s, lastToken, clock,
                   all_slots, iterLog, startedCount, exitStatus, exitCause,
                   exitAt>>

Next ==
    \/ GetConfig
    \/ StartAuth
    \/ StartBooking
    \/ StartNotify
    \/ LoopAuth
    \/ LoopBooking
    \/ LoopTimeslots
    \/ LoopReschedule
    \/ LoopNotify
    \/ LoopSleep
    \/ ExternalChange

Spec == Init /\ [][Next]_vars

\* the steps of the watcher itself
WatcherStep ==
    \/ GetConfig
    \/ StartAuth
    \/ StartBooking
    \/ StartNotify
    \/ LoopAuth
    \/ LoopBooking
    \/ LoopTimeslots
    \/ LoopReschedule
    \/ LoopNotify
    \/ LoopSleep

\* the interpreter keeps running the one thread: every call that is made
\* comes back, with an answer or an exception
\* a run whose configuration loads: the loop is only entered in such runs
LiveInit ==
    /\ Init
    /\ configFile = "valid"
    /\ reschedule_threshold_seconds = Threshold
    /\ lastToken = "t1"

LiveSpec == LiveInit /\ [][Next]_vars /\ WF_vars(WatcherStep)

-----------------------------------------------------------------------------
(* Vocabulary of the properties *)

StartupPcs == {"get_config", "start_auth", "start_booking", "start_notify"}

LoopPcs == {"loop_auth", "loop_booking", "loop_timeslots", "loop_reschedule",
            "loop_notify", "loop_sleep"}

\* the current cycle has issued a request of this kind
HasOp(op) == Entries(iterLog, op) # {}

\* text messages of this kind delivered in the current cycle
Delivered(message) ==
    { i \in Entries(iterLog, "notify") :
        iterLog[i].kind = message /\ iterLog[i].st = 1 }

\* the slot query of the current cycle was answered with a list of slots
ListAnswered ==
    /\ HasOp("slots")
    /\ ~all_slots.err /\ all_slots.status = 200 /\ all_slots.wellformed

\* m is the earliest slot of the list l
IsEarliest(m, l) ==
    /\ \E i \in 1..Len(l) : l[i] = m
    /\ \A i \in 1..Len(l) : m <= l[i]

\* the current cycle issues a reschedule request
RescheduleIssued == pc = "loop_reschedule" \/ HasOp("reschedule")

-----------------------------------------------------------------------------
(* C1: in every loop iteration a reschedule request is issued if and only  *)
(* if the slot query returned a best candidate and delta_seconds =         *)
(* (current_booking_ms - best_candidate_ms) / 1000 is strictly greater     *)
(* than the threshold of 108000 s: none at exactly 108000 s, one for any   *)
(* saving above it, be it by a fraction of a second.                       *)
C1_RescheduleIffDeltaAboveThreshold ==
    HasOp("slots") =>
        ( RescheduleIssued <=>
            /\ ListAnswered
            /\ Len(all_slots.list) > 0
            /\ \E m \in SlotVals :
                /\ IsEarliest(m, all_slots.list)
                /\ current_booking_ms - m > Threshold * 1000 )

(* C2: the watcher never issues a reschedule request for a slot that lies  *)
(* less than 30 hours (108000 s) after the current time of the iteration:  *)
(* newTime - current_time_ms >= 108000 * 1000 for every request.           *)
C2_NeverBooksWithin30Hours ==
    \A i \in Entries(iterLog, "reschedule") :
        iterLog[i].a - current_time_ms >= Threshold * 1000

(* C3: when the slot query of an iteration returns an empty candidate      *)
(* list, the iteration issues no reschedule request, sends no 'found and   *)
(* rebooked' notification, raises no error and goes on to the sleep step.  *)
C3_EmptyListIsQuiet ==
    (ListAnswered /\ Len(all_slots.list) = 0) =>
        /\ pc \in {"loop_sleep", "loop_auth"}
        /\ exitStatus = -1
        /\ ~HasOp("reschedule")
        /\ ~HasOp("notify")

C3_Witness ==
    /\ pc = "loop_sleep"
    /\ ListAnswered
    /\ Len(all_slots.list) = 0

(* C4: for every non-empty candidate list with at least one value strictly *)
(* less than the current booking, the best candidate of the policy, and    *)
(* the newTime of any reschedule request that results, is the minimum of   *)
(* the list (a minimum of 0 included).                                     *)
C4_BestIsEarliest ==
    ( /\ ListAnswered
      /\ \E i \in 1..Len(all_slots.list) :
            all_slots.list[i] < current_booking_ms ) =>
        /\ best_timeslot_ms # None
        /\ IsEarliest(best_timeslot_ms[1], all_slots.list)
        /\ \A i \in Entries(iterLog, "reschedule") :
            IsEarliest(iterLog[i].a, all_slots.list)

C4_Witness ==
    /\ ListAnswered
    /\ HasOp("reschedule")
    /\ Len(all_slots.list) = 2
    /\ all_slots.list[2] < all_slots.list[1]
    /\ all_slots.list[1] < current_booking_ms

(* C5: in every iteration, with T the booking time fetched in it, the slot *)
(* query uses a start bound equal to the current time sampled in that      *)
(* iteration and an end bound strictly less than T.                        *)
C5_WindowExcludesBooking ==
    \A i \in Entries(iterLog, "slots") :
        /\ iterLog[i].a = current_time_ms
        /\ iterLog[i].a = clock
        /\ iterLog[i].b < current_booking_ms

C5_Witness ==
    /\ HasOp("slots")
    /\ HasOp("booking")
    /\ pc = "loop_sleep"

(* C6: an authentication response without the session header halts the    *)
(* process, before any notification, when it is the start-up               *)
(* authentication; in a later loop iteration it is reported, the iteration *)
(* is skipped and the process keeps running.                               *)
C6_AuthFailureFatalOnlyAtStartup ==
    exitCause = "auth_no_cookie" =>
        /\ exitAt = "start_auth"
        /\ startedCount = 0
        /\ ~HasOp("notify")

(* C7: once the loop has been entered no transient remote-service failure  *)
(* (malformed booking page, malformed slot list, failed or non-2xx         *)
(* response) terminates the process; the iteration is a no-op and the loop *)
(* goes on.                                                                *)
C7_TransientFailuresAreContained ==
    exitAt \in LoopPcs =>
        exitCause \notin {"booking_parse", "slots_parse", "auth_transport",
                          "booking_transport", "slots_transport",
                          "reschedule_transport"}

(* C8: when the process terminates because an authentication response had  *)
(* no session header, its exit status is non-zero.                         *)
C8_AuthFailureExitsNonZero ==
    exitCause = "auth_no_cookie" => exitStatus # 0

(* C9: a 'found and rebooked' notification is sent only for a reschedule   *)
(* request that succeeded; after an error status none is sent.             *)
C9_RebookedOnlyAfterSuccess ==
    \A i \in Entries(iterLog, "notify") :
        iterLog[i].kind = RebookedMessage =>
            \E j \in Entries(iterLog, "reschedule") :
                j < i /\ iterLog[j].st = 200

(* C10: the 'watcher started' notification is sent exactly once, after one *)
(* successful start-up authentication and one booking fetch and before the *)
(* first slot query or reschedule request; never again in later            *)
(* iterations, and not at all if start-up authentication fails.            *)
C10_StartedSentOnce ==
    /\ startedCount <= 1
    /\ pc \in LoopPcs => startedCount = 1
    /\ pc \in StartupPcs => startedCount = 0
    /\ exitAt \in StartupPcs => startedCount = 0
    /\ exitAt \in LoopPcs => startedCount = 1
    /\ \A i \in Delivered(StartedMessage) :
        /\ Len(iterLog) = 3 /\ i = 3
        /\ iterLog[1].op = "auth" /\ iterLog[1].st = 1
        /\ iterLog[2].op = "booking" /\ iterLog[2].st = 1

C10_Witness ==
    /\ startedCount = 1
    /\ pc = "loop_notify"
    /\ HasOp("slots")
    /\ HasOp("reschedule")

(* C11: the session token is never reused across iterations: every loop    *)
(* iteration begins with a new authentication, and its booking fetch and   *)
(* reschedule request carry the token that authentication returned, which  *)
(* is the one the remote service issued last, not an earlier one.          *)
C11_TokenOfSameIteration ==
    /\ Len(iterLog) > 0 => iterLog[1].op = "auth"
    /\ Len(iterLog) > 1 => iterLog[1].st = 1
    /\ \A i \in Entries(iterLog, "booking")
                   \cup Entries(iterLog, "reschedule") :
        /\ iterLog[i].tok = iterLog[1].tok
        /\ iterLog[i].tok = lastToken

C11_Witness ==
    /\ pc = "loop_notify"
    /\ HasOp("booking")
    /\ HasOp("reschedule")
    /\ iterLog[1].tok = "t1"
    /\ startedCount = 1

\* the booking time (ms) the remote page showed to the current cycle
FetchedBooking ==
    iterLog[CHOOSE k \in Entries(iterLog, "booking") : TRUE].a * 1000

(* C12: the booking time used for an iteration's query window and for its  *)
(* reschedule decision is the value fetched from the remote service in     *)
(* that same iteration, never one of start-up or of an earlier iteration;  *)
(* after a reschedule the next iteration decides against the booking time  *)
(* newly reported.                                                         *)
C12_BookingOfSameIteration ==
    pc \in {"loop_timeslots", "loop_reschedule", "loop_notify", "loop_sleep"}
    =>
        /\ Cardinality(Entries(iterLog, "booking")) = 1
        /\ current_booking_ms = FetchedBooking
        /\ \A i \in Entries(iterLog, "slots") :
            iterLog[i].b = FetchedBooking - 1000
        /\ HasOp("slots") =>
            ( RescheduleIssued <=>
                /\ ListAnswered
                /\ \E m \in SlotVals \ {0} :
                    /\ IsEarliest(m, all_slots.list)
                    /\ IntDiv1000(FetchedBooking - m) > 108000 )

C12_Witness ==
    /\ pc = "loop_sleep"
    /\ HasOp("slots")
    /\ ~HasOp("reschedule")
    /\ current_booking_ms = 108000000
    /\ all_slots.list = <<1000>>

\* the current cycle reschedules exactly when the earliest slot is taken as
\* a candidate and saves more than `threshold` whole seconds
DecidesWith(threshold) ==
    HasOp("slots") =>
        ( RescheduleIssued <=>
            /\ ListAnswered
            /\ \E m \in SlotVals \ {0} :
                /\ IsEarliest(m, all_slots.list)
                /\ IntDiv1000(current_booking_ms - m) > threshold )

C14_MissingConfigExits ==
    configFile = "absent" =>
        /\ pc \in {"get_config", "terminated"}
        /\ iterLog = <<>>
        /\ startedCount = 0
        /\ session_token = None
        /\ pc = "terminated" =>
            /\ templateWritten
            /\ exitCause = "config_missing"
            /\ exitAt = "get_config"
            /\ exitStatus > 0

C14_Witness ==
    /\ configFile = "absent"
    /\ pc = "terminated"
    /\ templateWritten
    /\ exitStatus = 1

\* the kinds of the requests of the current cycle, in the order issued
Ops == [i \in 1..Len(iterLog) |-> iterLog[i].op]

FullCycle == <<"auth", "booking", "slots", "reschedule", "notify">>

IsPrefix(s, t) == Len(s) <= Len(t) /\ s = SubSeq(t, 1, Len(s))

(* C15: within every loop iteration the steps occur in the fixed order     *)
(* authenticate, fetch booking, fetch slots, evaluate, (optional)          *)
(* reschedule, (optional) notify, sleep: no reschedule request before the  *)
(* iteration's slot query, no rebooked notification before its reschedule  *)
(* request, at most one reschedule request per iteration, and no step of   *)
(* the next iteration before the sleep of the current one.                 *)
C15_StepsInOrder ==
    /\ pc = "loop_booking" => Ops = SubSeq(FullCycle, 1, 1)
    /\ pc = "loop_timeslots" => Ops = SubSeq(FullCycle, 1, 2)
    /\ pc = "loop_reschedule" => Ops = SubSeq(FullCycle, 1, 3)
    /\ pc = "loop_notify" => Ops = SubSeq(FullCycle, 1, 4)
    /\ pc = "loop_sleep" => Ops \in {SubSeq(FullCycle, 1, 3), FullCycle}
    /\ pc = "loop_auth" => Ops \in {<<"auth", "booking", "notify">>, <<>>}
    /\ exitAt \in LoopPcs => IsPrefix(Ops, FullCycle)
    /\ Cardinality(Entries(iterLog, "reschedule")) <= 1
    /\ \A i \in Entries(iterLog, "notify") :
        iterLog[i].kind = RebookedMessage =>
            \E j \in Entries(iterLog, "reschedule") : j < i
    /\ \A i \in Entries(iterLog, "reschedule") :
        \E j \in Entries(iterLog, "slots") : j < i

C15_Witness ==
    /\ pc = "loop_sleep"
    /\ Ops = FullCycle
    /\ iterLog[5].st = 1

\* the ways the process ends: each is a failure of configuration, of the
\* remote service or of the message transport
FailureCauses ==
    {"config_missing", "config_invalid", "auth_no_cookie", "auth_transport",
     "auth_cookie_format", "booking_transport", "booking_parse",
     "slots_transport", "slots_parse", "reschedule_transport",
     "notify_failed"}

\* the reschedule request of the current cycle was answered with an error
RescheduleRefused ==
    \E i \in Entries(iterLog, "reschedule") : iterLog[i].st = 500

(* C16: the steady-state loop never exits on its own: under normal         *)
(* operation (authentication succeeds, every request is answered and the   *)
(* answers are well-formed) every iteration, whether or not it rescheduled *)
(* and whether or not its reschedule request was refused, eventually       *)
(* reaches the sleep step and is followed by another iteration.            *)
C16_LoopNeverExits ==
    /\ [](pc = "terminated" => exitCause \in FailureCauses)
    /\ []<>(pc = "loop_sleep" \/ pc = "terminated")
    /\ [][ /\ pc = "loop_reschedule" =>
               pc' = "loop_notify" \/ exitCause' = "reschedule_transport"
           /\ pc = "loop_notify" =>
               pc' = "loop_sleep" \/ exitCause' = "notify_failed"
           /\ pc = "loop_sleep" => pc' = "loop_auth" ]_pc

C16_Witness ==
    /\ pc = "loop_sleep"
    /\ RescheduleRefused
    /\ Ops = FullCycle

(* C17: when the slot query is answered with a non-200 status, the failure *)
(* is reported and the iteration is treated exactly like one with no       *)
(* candidates: no reschedule request, no rebooked notification, and the    *)
(* loop continues to the sleep step and the next iteration.                *)
C17_ErrorStatusIsQuiet ==
    (HasOp("slots") /\ ~all_slots.err /\ all_slots.status # 200) =>
        /\ pc = "loop_sleep"
        /\ exitStatus = -1
        /\ best_timeslot_ms = None
        /\ \A i \in Entries(iterLog, "slots") : iterLog[i].kind = "reported"
        /\ ~HasOp("reschedule")
        /\ ~HasOp("notify")

C17_Witness ==
    /\ pc = "loop_sleep"
    /\ HasOp("slots")
    /\ all_slots.status = 500

\* the watcher has fetched the booking at least once
BookingKnown ==
    \/ pc \in LoopPcs \cup {"start_notify"}
    \/ exitAt \in LoopPcs \cup {"start_notify"}

\* the booking time the remote page would show now
ReportedNow == (remoteBooking \div 1000) * 1000

(* C18: every reschedule request carries a newTime strictly earlier, by    *)
(* more than 108000 seconds, than the booking time fetched in the same     *)
(* iteration, whatever candidate list the remote service returns; hence,   *)
(* if reschedules take effect and the booking is not changed externally,   *)
(* the booking time reported to successive iterations never increases and  *)
(* strictly decreases at each reschedule.                                  *)
C18_RescheduleOnlyEarlier ==
    /\ \A i \in Entries(iterLog, "reschedule") :
        current_booking_ms - iterLog[i].a > 108000 * 1000
    /\ pc = "loop_reschedule" =>
        current_booking_ms - best_timeslot_ms[1] > 108000 * 1000
    /\ (extChanges = 0 /\ BookingKnown) =>
        /\ ReportedNow <= current_booking_ms
        /\ \A i \in Entries(iterLog, "reschedule") :
            iterLog[i].st = 200 => ReportedNow < current_booking_ms

C18_Witness ==
    /\ pc = "loop_notify"
    /\ extChanges = 0
    /\ \E i \in Entries(iterLog, "reschedule") : iterLog[i].st = 200
    /\ current_booking_ms = 216002000
    /\ remoteBooking = 108000000
    /\ Len(all_slots.list) = 2

====
